---- MODULE Spec2Model ----
(***************************************************************************)
(* Orion demand-forecasting agent: the Ensemble Combiner                   *)
(* (app/forecasting/ensemble_model.py) and the Forecast Orchestrator with  *)
(* its forecast store (app/forecasting/forecaster.py).                     *)
(*                                                                         *)
(* Floats are held as exact rationals [n, d] in lowest terms, d > 0.       *)
(* Dates are day numbers.  The fitted statsmodels / Prophet estimators are *)
(* oracles: whether a fit, an evaluation or a prediction succeeds, and the *)
(* numbers it yields, are drawn from small sets.                           *)
(***************************************************************************)
EXTENDS Integers, Sequences, FiniteSets, TLC

VARIABLES
    fe,         \* one Feature Engineer call: the sales rows it loaded and the frame it returned
    api,        \* the API call tracker: its Redis counters and each worker's position
    ins,        \* one generate_insights run: what it reads and what it returned
    report,     \* what the last get_accuracy_report call returned, and how many ran
    sched,      \* the Celery scheduler: its clock and the state of its tasks
    mdl,        \* a model instance of one of the three classes, used on its own
    ens,        \* the EnsembleModel instance under test
    ensOut,     \* what the last call on ens returned (or raised)
    rows,       \* the forecasts table: committed Forecast rows
    nextId,     \* next primary key of the forecasts table
    now,        \* datetime.utcnow(), a logical clock that ticks when a call starts
    wk,         \* per worker: its database session and the call it is running
    ret,        \* per worker: what its last finished call returned (or raised)
    calls,      \* direct _store_forecasts calls started so far
    lastUpd,    \* what the last update_forecast_actuals call returned
    updates     \* update_forecast_actuals calls made so far

vars == <<fe, api, ins, report, sched, mdl, ens, ensOut, rows, nextId, now, wk, ret, calls, lastUpd, updates>>

ensVars == <<ens, ensOut>>
storeVars == <<rows, nextId, now, wk, ret, calls, lastUpd, updates>>

None == "None"

(***************************************************************************)
(* Rational arithmetic                                                     *)
(***************************************************************************)
Abs(x) == IF x < 0 THEN -x ELSE x

RECURSIVE GCD(_, _)
GCD(a, b) == IF b = 0 THEN a ELSE GCD(b, a % b)

Norm(n, d) ==
    LET s == IF d < 0 THEN -1 ELSE 1
        g == GCD(Abs(n), Abs(d))
    IN  [n |-> (s * n) \div g, d |-> (s * d) \div g]

Rat(i) == [n |-> i, d |-> 1]

RatAdd(x, y) ==
    LET g == GCD(x.d, y.d)
    IN  Norm(x.n * (y.d \div g) + y.n * (x.d \div g), (x.d \div g) * y.d)

RatMul(x, y) ==
    LET g1 == GCD(Abs(x.n), y.d)
        g2 == GCD(Abs(y.n), x.d)
    IN  Norm((x.n \div g1) * (y.n \div g2), (x.d \div g2) * (y.d \div g1))

\* x / y for y # 0
RatDiv(x, y) == RatMul(x, Norm(y.d, y.n))

RatLe(x, y) ==
    LET g == GCD(x.d, y.d)
    IN  x.n * (y.d \div g) <= y.n * (x.d \div g)

RatLt(x, y) == ~RatLe(y, x)

\* max(0, x)
Max0(x) == IF x.n < 0 THEN Rat(0) ELSE x

Half == [n |-> 1, d |-> 2]

(***************************************************************************)
(* Oracles of the fitted estimators                                        *)
(***************************************************************************)
\* (lower, mean, upper) a fitted SARIMAX may forecast: a symmetric interval
\* around a mean of either sign
SarimaTriples == {<<-3, -1, 1>>, <<-1, 1, 3>>, <<1, 2, 3>>}

\* (yhat_lower, yhat, yhat_upper) a fitted Prophet may forecast
ProphetTriples == {<<-2, -1, 1>>, <<0, 2, 4>>}

\* validation MAPEs Prophet may measure on actuals that are not all zero, in
\* units of epsilon (1e-6)
MapeValues == {0, 3}

\* 100.0, the MAPE given to a failed component, in units of epsilon
MapeWorst == 100000000

\* epsilon = 1e-6, in units of epsilon
Epsilon == 1

\* settings.CONFIDENCE_LEVEL and the default confidence_level, in hundredths
ConfidenceLevel == 95

\* longest prediction a call asks for
MaxSteps == 2

Point(d, lo, q, hi, score) ==
    [forecast_date |-> d,
     predicted_quantity |-> q,
     confidence_interval_lower |-> lo,
     confidence_interval_upper |-> hi,
     confidence_score |-> score]

(***************************************************************************)
(* SARIMAModel                                                             *)
(***************************************************************************)
\* state after __init__
SarimaNew == [model_fit |-> FALSE, last_date |-> 0]

\* train(data): data covers days first .. first + n - 1.
\* how = "raise": check_stationarity raises before training_data is stored;
\* how = "fail": SARIMAX(...).fit raises and train returns success False.
SarimaTrain(first, n, how) ==
    CASE how = "raise" -> [tag |-> "raise", obj |-> SarimaNew]
      [] how = "fail"  -> [tag |-> "fail",
                           obj |-> [model_fit |-> FALSE, last_date |-> first + n - 1]]
      [] OTHER         -> [tag |-> "ok",
                           obj |-> [model_fit |-> TRUE, last_date |-> first + n - 1]]

\* predict(steps, confidence_level)
SarimaPredict(obj, steps, score, ok, t) ==
    IF ~obj.model_fit THEN [tag |-> "raise", model_type |-> "SARIMA", forecasts |-> <<>>]
    ELSE IF ~ok THEN [tag |-> "fail", model_type |-> "SARIMA", forecasts |-> <<>>]
    ELSE [tag |-> "ok", model_type |-> "SARIMA",
          forecasts |-> [i \in 1..steps |->
              Point(obj.last_date + i, Rat(t[1]), Rat(t[2]), Rat(t[3]), score)]]

\* evaluate(test_data): nothing after the guard is inside a try.  The inner
\* predict may return success False.  _calculate_metrics gets the predictions
\* as a Python list: when some actual is non-zero it indexes the list by the
\* boolean mask, which raises TypeError; when all actuals are zero the MAPE is 0.0
SarimaEvaluate(obj, predict_ok, nonzero) ==
    IF ~obj.model_fit THEN [tag |-> "raise", mape |-> 0]
    ELSE IF ~predict_ok THEN [tag |-> "fail", mape |-> 0]
    ELSE IF nonzero THEN [tag |-> "raise", mape |-> 0]
    ELSE [tag |-> "ok", mape |-> 0]

(***************************************************************************)
(* ProphetModel                                                            *)
(***************************************************************************)
\* state after __init__: model is None
ProphetNew == [model |-> "None", last_date |-> 0]

\* train(data): how = "fail_prepare": _prepare_prophet_df raises, model stays
\* None; how = "fail_fit": Prophet(...) is built, then fit raises
ProphetTrain(first, n, how) ==
    CASE how = "fail_prepare" -> [tag |-> "fail", obj |-> ProphetNew]
      [] how = "fail_fit"     -> [tag |-> "fail",
                                  obj |-> [model |-> "unfit", last_date |-> first + n - 1]]
      [] OTHER                -> [tag |-> "ok",
                                  obj |-> [model |-> "fit", last_date |-> first + n - 1]]

\* predict(steps, confidence_level): every number floored at 0
ProphetPredict(obj, steps, score, ok, t) ==
    IF obj.model = "None" THEN [tag |-> "raise", model_type |-> "Prophet", forecasts |-> <<>>]
    ELSE IF obj.model = "unfit" \/ ~ok
         THEN [tag |-> "fail", model_type |-> "Prophet", forecasts |-> <<>>]
    ELSE [tag |-> "ok", model_type |-> "Prophet",
          forecasts |-> [i \in 1..steps |->
              Point(obj.last_date + i, Max0(Rat(t[1])), Max0(Rat(t[2])),
                    Max0(Rat(t[3])), score)]]

\* an evaluate whose guard sits inside the try: no model yields a failure
\* result instead of an exception
ProphetEvaluate_Guarded(obj, ok, nonzero, mape) ==
    IF obj.model \in {"None", "unfit"} \/ ~ok THEN [tag |-> "fail", mape |-> 0]
    ELSE [tag |-> "ok", mape |-> IF nonzero THEN mape ELSE 0]

\* evaluate(test_data): everything after the guard is inside try/except; the
\* predictions are an array, and the MAPE is 0.0 when all actuals are zero
ProphetEvaluate(obj, ok, nonzero, mape) ==
    IF obj.model = "None" THEN [tag |-> "raise", mape |-> 0]
    ELSE IF obj.model = "unfit" \/ ~ok THEN [tag |-> "fail", mape |-> 0]
    ELSE [tag |-> "ok", mape |-> IF nonzero THEN mape ELSE 0]

(***************************************************************************)
(* EnsembleModel                                                           *)
(***************************************************************************)
\* __init__(sarima_weight, prophet_weight, auto_weight)
EnsembleNew(sw, pw, auto) ==
    LET total_weight == RatAdd(sw, pw)
        norm == total_weight.n > 0
    IN  [sarima_weight  |-> IF norm THEN RatDiv(sw, total_weight) ELSE sw,
         prophet_weight |-> IF norm THEN RatDiv(pw, total_weight) ELSE pw,
         auto_weight    |-> auto,
         has_sarima     |-> FALSE,      \* sarima_model is not None
         sarima_model   |-> SarimaNew,
         has_prophet    |-> FALSE,      \* prophet_model is not None
         prophet_model  |-> ProphetNew]

\* what ProphetModel.evaluate may do on a fitted model
ProphetEvals ==
    {[ok |-> FALSE, mape |-> 0]} \cup {[ok |-> TRUE, mape |-> m] : m \in MapeValues}

\* what the estimators do during one train call, and whether the validation
\* rows hold a non-zero actual.  sarima_mape is the MAPE of SARIMA's validation
\* forecast over the non-zero actuals, the number _calculate_metrics is to
\* compute from them
TrainEnvs ==
    [sarima_train : {"ok", "fail", "raise"},
     prophet_train : {"ok", "fail_prepare", "fail_fit"},
     val_nonzero : BOOLEAN,
     sarima_eval_ok : BOOLEAN,
     sarima_mape : MapeValues,
     prophet_eval : ProphetEvals]

\* what the estimators do during one predict call
PredictEnvs ==
    [sarima_ok : BOOLEAN, sarima_t : SarimaTriples,
     prophet_ok : BOOLEAN, prophet_t : ProphetTriples]

\* int(len(data) * (1 - validation_split)) for validation_split = 0.2
SplitIdx(n) == (n * 8) \div 10

\* _optimize_weights(val_data, target_col)
OptimizeWeights(self, env) ==
    LET sarima_eval == SarimaEvaluate(self.sarima_model, env.sarima_eval_ok,
                                      env.val_nonzero)
        prophet_eval == ProphetEvaluate(self.prophet_model, env.prophet_eval.ok,
                                        env.val_nonzero, env.prophet_eval.mape)
        sarima_mape == IF sarima_eval.tag = "ok" THEN sarima_eval.mape ELSE MapeWorst
        prophet_mape == IF prophet_eval.tag = "ok" THEN prophet_eval.mape ELSE MapeWorst
        sarima_inv == RatDiv(Rat(1), Rat(sarima_mape + Epsilon))
        prophet_inv == RatDiv(Rat(1), Rat(prophet_mape + Epsilon))
        total == RatAdd(sarima_inv, prophet_inv)
    IN  IF sarima_eval.tag = "raise" \/ prophet_eval.tag = "raise"
        THEN [sarima |-> Half, prophet |-> Half, how |-> "fallback"]
        ELSE [sarima |-> RatDiv(sarima_inv, total),
              prophet |-> RatDiv(prophet_inv, total), how |-> "optimized"]

\* train(data, target_col, validation_split): data covers first .. first + n - 1.
\* Returns the instance afterwards and the summary.
EnsembleTrain(self, first, n, env) ==
    LET has_val == self.auto_weight /\ n > 30
        ntrain == IF has_val THEN SplitIdx(n) ELSE n
        st == SarimaTrain(first, ntrain, env.sarima_train)
        pt == ProphetTrain(first, ntrain, env.prophet_train)
        s1 == [self EXCEPT !.has_sarima = TRUE, !.sarima_model = st.obj]
        s2 == [s1 EXCEPT !.has_prophet = TRUE, !.prophet_model = pt.obj]
        w == OptimizeWeights(s2, env)
        s3 == IF has_val
              THEN [s2 EXCEPT !.sarima_weight = w.sarima, !.prophet_weight = w.prophet]
              ELSE s2
    IN  IF st.tag = "raise"
        THEN [self |-> s1, tag |-> "fail", how |-> "aborted",
              sarima_tag |-> st.tag, prophet_tag |-> "none"]
        ELSE [self |-> s3, tag |-> "ok",
              how |-> IF has_val THEN w.how ELSE "kept",
              sarima_tag |-> st.tag, prophet_tag |-> pt.tag]

\* one weighted forecast point
Combine(self, sarima, prophet) ==
    LET ensemble_pred ==
            RatAdd(RatMul(self.sarima_weight, sarima.predicted_quantity),
                   RatMul(self.prophet_weight, prophet.predicted_quantity))
        ensemble_lower ==
            RatAdd(RatMul(self.sarima_weight, sarima.confidence_interval_lower),
                   RatMul(self.prophet_weight, prophet.confidence_interval_lower))
        ensemble_upper ==
            RatAdd(RatMul(self.sarima_weight, sarima.confidence_interval_upper),
                   RatMul(self.prophet_weight, prophet.confidence_interval_upper))
    IN  Point(sarima.forecast_date, Max0(ensemble_lower), Max0(ensemble_pred),
              Max0(ensemble_upper), sarima.confidence_score)

\* predict(steps, confidence_level)
EnsemblePredict(self, steps, score, env) ==
    LET sarima_result == SarimaPredict(self.sarima_model, steps, score,
                                       env.sarima_ok, env.sarima_t)
        prophet_result == ProphetPredict(self.prophet_model, steps, score,
                                         env.prophet_ok, env.prophet_t)
        failed == [tag |-> "fail", model_type |-> "Ensemble", forecasts |-> <<>>]
        parts == [sarima_tag |-> sarima_result.tag, prophet_tag |-> prophet_result.tag]
    IN  IF ~self.has_sarima \/ ~self.has_prophet
        THEN [tag |-> "raise", model_type |-> "Ensemble", forecasts |-> <<>>,
              sarima_tag |-> "none", prophet_tag |-> "none"]
        ELSE IF sarima_result.tag = "raise"
        THEN failed @@ [sarima_tag |-> "raise", prophet_tag |-> "none"]
        ELSE IF prophet_result.tag = "raise" THEN failed @@ parts
        ELSE IF sarima_result.tag = "fail" /\ prophet_result.tag = "fail"
        THEN failed @@ parts
        ELSE IF sarima_result.tag = "fail" THEN prophet_result @@ parts
        ELSE IF prophet_result.tag = "fail" THEN sarima_result @@ parts
        ELSE [tag |-> "ok", model_type |-> "Ensemble",
              forecasts |-> [i \in 1..Len(sarima_result.forecasts) |->
                  Combine(self, sarima_result.forecasts[i], prophet_result.forecasts[i])]]
             @@ parts

(***************************************************************************)
(* Sales history and the Feature Engineer                                  *)
(***************************************************************************)
MIN_HISTORY_DAYS == 365

\* SalesHistory(product_id, sku, sale_date, quantity_sold)
Sale(id, product_id, sku, sale_date, quantity_sold) ==
    [id |-> id, product_id |-> product_id, sku |-> sku,
     sale_date |-> sale_date, quantity_sold |-> quantity_sold]

\* the sales_history table: P1 has exactly MIN_HISTORY_DAYS days and two
\* transactions on day 293; S2 is known by SKU only; P3 is one day short; P5
\* sold nothing in the last fifth of its history
SalesRows ==
    { Sale(1, "P1", "S1", 1, 5),   Sale(2, "P1", "S1", 293, 1),
      Sale(3, "P1", "S1", 293, 2), Sale(4, "P1", "S1", 294, 4),
      Sale(5, "P1", "S1", 365, 2),
      Sale(6, None, "S2", 1, 3),   Sale(7, None, "S2", 293, 6),
      Sale(8, None, "S2", 366, 1),
      Sale(9, "P3", "S3", 1, 2),   Sale(10, "P3", "S3", 364, 2),
      Sale(11, "P5", "S5", 1, 4),  Sale(12, "P5", "S5", 365, 0) }

\* _load_sales_data: filter by product id if given, else by SKU if given
LoadSalesData(product_id, sku) ==
    IF product_id # None THEN {s \in SalesRows : s.product_id = product_id}
    ELSE IF sku # None THEN {s \in SalesRows : s.sku = sku}
    ELSE SalesRows

SetMin(S) == CHOOSE x \in S : \A y \in S : x <= y
SetMax(S) == CHOOSE x \in S : \A y \in S : x >= y

\* _aggregate_daily: one row per calendar day from the first sale to the last;
\* a frame is its first day, its number of rows and the sales it sums
AggregateDaily(sales) ==
    LET days == {s.sale_date : s \in sales}
    IN  [first |-> SetMin(days), n |-> SetMax(days) - SetMin(days) + 1, sales |-> sales]

\* groupby('sale_date').sum(), and 0 for the days filled in
RECURSIVE SumQuantity(_)
SumQuantity(sales) ==
    IF sales = {} THEN 0
    ELSE LET s == CHOOSE x \in sales : TRUE
         IN  s.quantity_sold + SumQuantity(sales \ {s})

DailyQuantity(df, day) == SumQuantity({s \in df.sales : s.sale_date = day})

\* prepare_time_series: the empty frame when no sale matches
PrepareTimeSeries(product_id, sku) ==
    LET sales == LoadSalesData(product_id, sku)
    IN  IF sales = {} THEN [first |-> 0, n |-> 0, sales |-> {}]
        ELSE AggregateDaily(sales)

\* split_train_test(df, test_size=0.2)
SplitTrainTest(df) ==
    [train |-> [first |-> df.first, n |-> SplitIdx(df.n), sales |-> df.sales],
     val |-> [first |-> df.first + SplitIdx(df.n), n |-> df.n - SplitIdx(df.n),
              sales |-> df.sales]]

\* actuals != 0 selects something: some day of the frame has a non-zero quantity
NonZeroActuals(df) ==
    \E day \in df.first..(df.first + df.n - 1) : DailyQuantity(df, day) # 0

(***************************************************************************)
(* The forecasts table and the workers' sessions                           *)
(***************************************************************************)
Workers == {"w1", "w2"}

ZeroUuid == "00000000-0000-0000-0000-000000000000"
UnknownSku == "UNKNOWN"

\* a worker between calls, with an empty session
Session(pc) ==
    [pc |-> pc, op |-> "none", product_id |-> None, sku |-> None,
     model_name |-> "none", model_version |-> "none", steps |-> 0,
     stage |-> "none", cause |-> "none", forecasts |-> <<>>, i |-> 1, created |-> 0,
     skipped |-> 0, pending |-> <<>>]

\* what a finished call handed to its caller
Result(op, outcome, success, error, created, model_type, horizon_days) ==
    [op |-> op, outcome |-> outcome, success |-> success, error |-> error,
     forecasts_created |-> created, model_type |-> model_type,
     forecast_horizon_days |-> horizon_days]

NoResult == Result("none", "none", FALSE, "none", 0, "none", 0)

NoUpdate ==
    [success |-> FALSE, date |-> 0, forecasts_checked |-> 0,
     forecasts_updated |-> 0, checked |-> {}, touched |-> {}]

\* a scheduler with nothing enqueued
NoSchedule == [clock |-> 0, tasks |-> <<>>]

\* no stand-alone model instance
NoModel == [kind |-> "none", trained |-> FALSE, tag |-> "none", op |-> "none"]

\* no accuracy report asked for yet
NoReport ==
    [count |-> 0, op |-> "none", success |-> FALSE, start_date |-> 0, end_date |-> 0,
     models |-> {}, total_forecasts |-> 0]

\* no Feature Engineer call made, no API call tracker in use
NoCalls ==
    /\ fe = [op |-> "none", sales |-> {}, empty |-> FALSE, rows |-> {}]
    /\ api = [daily |-> 0, monthly |-> 0, made |-> 0, made_month |-> 0,
              pc |-> [w \in Workers |-> "off"]]

\* no insight run
NoInsights ==
    [history |-> <<>>, forecast |-> <<>>, horizon |-> 0, first |-> 0,
     db |-> "none", op |-> "none",
     success |-> FALSE, error |-> "none", insights |-> {}, insights_created |-> 0]

StoreIdle ==
    /\ NoCalls
    /\ ins = NoInsights
    /\ report = NoReport
    /\ rows = {}
    /\ nextId = 1
    /\ now = 0
    /\ wk = [w \in Workers |-> Session("off")]
    /\ ret = [w \in Workers |-> NoResult]
    /\ calls = 0
    /\ lastUpd = NoUpdate
    /\ updates = 0

(***************************************************************************)
(* The ensemble under test: construct, then train and predict in any order *)
(***************************************************************************)
\* constructor weights tried, as rationals
WeightInputs == {Rat(0), Half, Rat(1), Rat(3)}

\* lengths of the series handed to train: at and above the 30-row threshold
DataLens == {30, 40}

EnsOut(op, tag, how, model_type, forecasts, sarima_tag, prophet_tag) ==
    [op |-> op, tag |-> tag, how |-> how, model_type |-> model_type,
     forecasts |-> forecasts, sarima_tag |-> sarima_tag, prophet_tag |-> prophet_tag]

EnsInit ==
    /\ \E sw \in WeightInputs, pw \in WeightInputs, auto \in BOOLEAN :
           ens = EnsembleNew(sw, pw, auto)
    /\ ensOut = EnsOut("init", "ok", "none", "Ensemble", <<>>, "none", "none")
    /\ mdl = NoModel
    /\ sched = NoSchedule
    /\ StoreIdle

EnsTrain ==
    \E n \in DataLens, env \in TrainEnvs :
        LET r == EnsembleTrain(ens, 1, n, env)
        IN  /\ ens' = r.self
            /\ ensOut' = EnsOut("train", r.tag, r.how, "Ensemble", <<>>,
                                r.sarima_tag, r.prophet_tag)
            /\ UNCHANGED <<fe, api, ins, report, sched, mdl, storeVars>>

EnsPredict ==
    \E steps \in 1..MaxSteps, env \in PredictEnvs :
        LET r == EnsemblePredict(ens, steps, ConfidenceLevel, env)
        IN  /\ ensOut' = EnsOut("predict", r.tag, "none", r.model_type, r.forecasts,
                                r.sarima_tag, r.prophet_tag)
            /\ UNCHANGED <<fe, api, ins, report, sched, mdl, ens, storeVars>>

EnsNext == EnsTrain \/ EnsPredict

SpecEnsemble == EnsInit /\ [][EnsNext]_vars

(***************************************************************************)
(* EnsembleModel.evaluate and the Forecast Orchestrator's pipeline         *)
(***************************************************************************)
\* evaluate(test_data): the guard raises; everything after it is in try/except.
\* The ensemble's predictions are a Python list too: with a non-zero actual the
\* mask indexing raises TypeError, which the except turns into success False
EnsembleEvaluate(self, steps, nonzero, sarima_eval_ok, prophet_eval, penv) ==
    LET se == SarimaEvaluate(self.sarima_model, sarima_eval_ok, nonzero)
        pe == ProphetEvaluate(self.prophet_model, prophet_eval.ok, nonzero,
                              prophet_eval.mape)
        er == EnsemblePredict(self, steps, ConfidenceLevel, penv)
    IN  IF ~self.has_sarima \/ ~self.has_prophet THEN "raise"
        ELSE IF se.tag = "raise" \/ pe.tag = "raise" THEN "fail"
        ELSE IF er.tag # "ok" THEN "fail"
        ELSE IF nonzero THEN "fail"
        ELSE "ok"

ModelNames == {"SARIMA", "Prophet", "Ensemble", "InvalidModel"}

\* what the estimators do during one generate_forecast run, per model name
SarimaRunEnvs ==
    [train : {"ok", "fail", "raise"}, eval_ok : BOOLEAN,
     ok : BOOLEAN, t : SarimaTriples]

ProphetRunEnvs ==
    [train : {"ok", "fail_prepare", "fail_fit"}, eval : ProphetEvals,
     ok : BOOLEAN, t : ProphetTriples]

\* (val_nonzero is read from the data of the run)
EnsembleRunEnvs ==
    [train : {e \in TrainEnvs : /\ ~e.val_nonzero
                                /\ e.sarima_mape = 0
                                /\ e.prophet_eval.mape = 0},
     predict : {e \in PredictEnvs : e.sarima_t[2] < 0 /\ e.prophet_t[2] > 0}]

RunEnvs(model_name) ==
    CASE model_name = "SARIMA"   -> SarimaRunEnvs
      [] model_name = "Prophet"  -> ProphetRunEnvs
      [] model_name = "Ensemble" -> EnsembleRunEnvs
      [] OTHER                   -> {[train |-> "none"]}

\* outcomes of steps 1-5 of generate_forecast.  cause tells an estimator that
\* failed ("estimator") from the metrics code raising on its own ("metrics")
Stored(forecasts) ==
    [tag |-> "store", error |-> "none", cause |-> "none", forecasts |-> forecasts]
Failed(error, cause) ==
    [tag |-> "fail", error |-> error, cause |-> cause, forecasts |-> <<>>]
Raised(cause) ==
    [tag |-> "raise", error |-> "exception", cause |-> cause, forecasts |-> <<>>]

\* the SARIMA branch: train on train_df, evaluate on val_df, predict
RunSarima(df, steps, env) ==
    LET split == SplitTrainTest(df)
        tr == SarimaTrain(split.train.first, split.train.n, env.train)
        ev == SarimaEvaluate(tr.obj, env.eval_ok, NonZeroActuals(split.val))
        pr == SarimaPredict(tr.obj, steps, ConfidenceLevel, env.ok, env.t)
    IN  IF tr.tag = "raise" THEN Raised("estimator")
        ELSE IF tr.tag = "fail" THEN Failed("Training failed", "estimator")
        ELSE IF ev.tag = "fail" THEN Raised("estimator")    \* eval_result['metrics']
        ELSE IF ev.tag = "raise" THEN Raised("metrics")
        ELSE IF pr.tag = "raise" THEN Raised("estimator")
        ELSE IF pr.tag = "fail" THEN Failed("Prediction failed", "estimator")
        ELSE Stored(pr.forecasts)

\* the Prophet branch
RunProphet(df, steps, env) ==
    LET split == SplitTrainTest(df)
        tr == ProphetTrain(split.train.first, split.train.n, env.train)
        ev == ProphetEvaluate(tr.obj, env.eval.ok, NonZeroActuals(split.val),
                              env.eval.mape)
        pr == ProphetPredict(tr.obj, steps, ConfidenceLevel, env.ok, env.t)
    IN  IF tr.tag = "fail" THEN Failed("Training failed", "estimator")
        ELSE IF ev.tag # "ok" THEN Raised("estimator")      \* eval_result['metrics']
        ELSE IF pr.tag = "raise" THEN Raised("estimator")
        ELSE IF pr.tag = "fail" THEN Failed("Prediction failed", "estimator")
        ELSE Stored(pr.forecasts)

\* the Ensemble branch: EnsembleModel(auto_weight=True) trained on the whole df
RunEnsemble(df, steps, env) ==
    LET split == SplitTrainTest(df)
        nonzero == NonZeroActuals(split.val)
        tenv == [env.train EXCEPT !.val_nonzero = nonzero]
        tr == EnsembleTrain(EnsembleNew(Half, Half, TRUE), df.first, df.n, tenv)
        ev == EnsembleEvaluate(tr.self, split.val.n, nonzero, tenv.sarima_eval_ok,
                               tenv.prophet_eval, env.predict)
        estimators == EnsembleEvaluate(tr.self, split.val.n, FALSE, tenv.sarima_eval_ok,
                                       tenv.prophet_eval, env.predict)
        pr == EnsemblePredict(tr.self, steps, ConfidenceLevel, env.predict)
    IN  IF tr.tag = "fail" THEN Failed("Training failed", "estimator")
        ELSE IF ev # "ok"                                   \* eval_result['metrics']
        THEN Raised(IF estimators = "ok" THEN "metrics" ELSE "estimator")
        ELSE IF pr.tag = "raise" THEN Raised("estimator")
        ELSE IF pr.tag = "fail" THEN Failed("Prediction failed", "estimator")
        ELSE Stored(pr.forecasts)

\* steps 2-5 of generate_forecast for a series that passed the data checks
RunModel(model_name, df, steps, env) ==
    CASE model_name = "SARIMA"   -> RunSarima(df, steps, env)
      [] model_name = "Prophet"  -> RunProphet(df, steps, env)
      [] model_name = "Ensemble" -> RunEnsemble(df, steps, env)
      [] OTHER                   -> Failed("Model not supported", "model")

\* the data checks with the length test off by one
DataCheck_Inclusive(df) ==
    IF df.n = 0 THEN "No historical data available"
    ELSE IF df.n <= MIN_HISTORY_DAYS THEN "Insufficient data"
    ELSE "ok"

\* the data checks of generate_forecast on the prepared frame
DataCheck(df) ==
    IF df.n = 0 THEN "No historical data available"
    ELSE IF df.n < MIN_HISTORY_DAYS THEN "Insufficient data"
    ELSE "ok"

\* steps 1-5 of generate_forecast
Pipeline(product_id, sku, model_name, steps, env) ==
    LET df == PrepareTimeSeries(product_id, sku)
    IN  IF DataCheck(df) # "ok" THEN Failed(DataCheck(df), "data")
        ELSE RunModel(model_name, df, steps, env)

\* a return of {'success': False, 'error': ..., 'forecasts_created': 0}
FailureResult(error) ==
    Result("generate_forecast", "returned", FALSE, error, 0, "none", 0)

\* a generate_forecast without its except clause: the exception reaches the caller
ExceptHandler_Propagates(error) ==
    Result("generate_forecast", "raised", FALSE, error, 0, "none", 0)

\* except Exception as e: the failure result built from str(e)
ExceptHandler(error) ==
    Result("generate_forecast", "returned", FALSE, error, 0, "none", 0)

(***************************************************************************)
(* _store_forecasts                                                        *)
(***************************************************************************)
\* the label with its thresholds exclusive
HorizonLabel_Exclusive(n) ==
    IF n < 7 THEN "7-day"
    ELSE IF n < 14 THEN "14-day"
    ELSE IF n < 30 THEN "30-day"
    ELSE ToString(n) \o "-day"

\* the horizon label derived from the number of points
HorizonLabel(n) ==
    IF n <= 7 THEN "7-day"
    ELSE IF n <= 14 THEN "14-day"
    ELSE IF n <= 30 THEN "30-day"
    ELSE ToString(n) \o "-day"

\* Forecast(...): a new row, without an actual
ForecastRow(id, product_id, sku, horizon, f, model_name, model_version, at) ==
    [id |-> id, product_id |-> product_id, sku |-> sku,
     forecast_date |-> f.forecast_date, forecast_horizon |-> horizon,
     predicted_quantity |-> f.predicted_quantity,
     confidence_interval_lower |-> f.confidence_interval_lower,
     confidence_interval_upper |-> f.confidence_interval_upper,
     confidence_score |-> f.confidence_score,
     model_name |-> model_name, model_version |-> model_version,
     generated_at |-> at,
     has_actual |-> FALSE, actual_quantity |-> 0,
     has_error |-> FALSE, error |-> Rat(0)]

\* the rows the existence query of _store_forecasts matches; a product_id of
\* None compares as IS NULL
Existing(rs, product_id, forecast_date, horizon) ==
    {r \in rs : /\ r.product_id = product_id
                /\ r.forecast_date = forecast_date
                /\ r.forecast_horizon = horizon}

\* the assignments of the update branch
UpdateExisting(r, f, model_name, model_version, at) ==
    [r EXCEPT !.predicted_quantity = f.predicted_quantity,
              !.confidence_interval_lower = f.confidence_interval_lower,
              !.confidence_interval_upper = f.confidence_interval_upper,
              !.confidence_score = f.confidence_score,
              !.model_name = model_name,
              !.model_version = model_version,
              !.generated_at = at]

\* the insert branch: product_id or the zero UUID, sku or "UNKNOWN"
InsertNew(id, s, f, at) ==
    ForecastRow(id,
                IF s.product_id # None THEN s.product_id ELSE ZeroUuid,
                IF s.sku # None THEN s.sku ELSE UnknownSku,
                HorizonLabel(Len(s.forecasts)), f, s.model_name, s.model_version, at)

\* db.commit(): flush the session's pending writes in order
RECURSIVE Flush(_, _, _, _, _)
Flush(rs, id, s, k, at) ==
    IF k > Len(s.pending) THEN [rows |-> rs, nextId |-> id]
    ELSE LET op == s.pending[k]
         IN  IF op.kind = "insert"
             THEN Flush(rs \cup {InsertNew(id, s, op.f, at)}, id + 1, s, k + 1, at)
             ELSE Flush({IF r.id = op.id
                         THEN UpdateExisting(r, op.f, s.model_name, s.model_version, op.at)
                         ELSE r : r \in rs},
                        id, s, k + 1, at)

(***************************************************************************)
(* Forecast runs: generate_forecast as a worker task                       *)
(***************************************************************************)
\* longest horizon a run asks for
MaxHorizon == 2

\* the entity filters the runs are started with
CallArgs ==
    {[product_id |-> "P1", sku |-> "S1"], [product_id |-> None, sku |-> "S2"],
     [product_id |-> "P3", sku |-> "S3"], [product_id |-> "P4", sku |-> "S4"],
     [product_id |-> "P5", sku |-> "S5"]}

NoEnv == [train |-> "none"]

\* a call in progress: its arguments, the points to store, where it stands
Call(op, a, model_name, model_version, steps, stage, cause, forecasts) ==
    [pc |-> IF stage = "store" THEN "store" ELSE "done",
     op |-> op, product_id |-> a.product_id, sku |-> a.sku,
     model_name |-> model_name, model_version |-> model_version, steps |-> steps,
     stage |-> stage, cause |-> cause, forecasts |-> forecasts, i |-> 1,
     created |-> 0, skipped |-> 0, pending |-> <<>>]

\* a task the scheduler has enqueued for a worker: generate_forecast(filter,
\* forecast_horizon_days, model_name), not yet started
Task(a, model_name, steps) ==
    [Session("idle") EXCEPT !.op = "generate_forecast", !.product_id = a.product_id,
                            !.sku = a.sku, !.model_name = model_name, !.steps = steps]

\* generate_forecast up to the call of _store_forecasts: it touches no shared
\* state, so it is one step
GenerateForecast(w) ==
    LET s == wk[w]
        a == [product_id |-> s.product_id, sku |-> s.sku]
    IN  /\ s.pc = "idle"
        /\ s.op = "generate_forecast"
        /\ \E env \in IF DataCheck(PrepareTimeSeries(s.product_id, s.sku)) = "ok"
                      THEN RunEnvs(s.model_name) ELSE {NoEnv} :
             LET out == Pipeline(s.product_id, s.sku, s.model_name, s.steps, env)
             IN  /\ wk' = [wk EXCEPT ![w] =
                            Call("generate_forecast", a, s.model_name, "1.0", s.steps,
                                 out.tag, out.cause, out.forecasts)]
                 /\ ret' = [ret EXCEPT ![w] =
                             CASE out.tag = "store" -> NoResult
                               [] out.tag = "fail"  -> FailureResult(out.error)
                               [] OTHER             -> ExceptHandler(out.error)]
        /\ now' = now + 1
        /\ UNCHANGED <<fe, api, ins, report, sched, mdl, ens, ensOut, rows, nextId, calls, lastUpd, updates>>

\* one iteration of the loop of _store_forecasts: the existence query sees the
\* committed rows; the write stays in the session until commit.  raises: the
\* iteration raised and the point is skipped (at most one iteration of a call)
StorePoint(w) ==
    LET s == wk[w]
        f == s.forecasts[s.i]
        found == Existing(rows, s.product_id, f.forecast_date,
                          HorizonLabel(Len(s.forecasts)))
    IN  /\ s.pc = "store"
        /\ s.i <= Len(s.forecasts)
        /\ \E raises \in IF s.skipped = 0 THEN BOOLEAN ELSE {FALSE} :
             IF raises
             THEN wk' = [wk EXCEPT ![w].i = s.i + 1, ![w].skipped = s.skipped + 1]
             ELSE IF found = {}
             THEN wk' = [wk EXCEPT ![w].i = s.i + 1, ![w].created = s.created + 1,
                            ![w].pending = Append(s.pending,
                                [kind |-> "insert", id |-> 0, f |-> f, at |-> now])]
             ELSE \E existing \in found :
                    wk' = [wk EXCEPT ![w].i = s.i + 1, ![w].created = s.created + 1,
                            ![w].pending = Append(s.pending,
                                [kind |-> "update", id |-> existing.id, f |-> f,
                                 at |-> now])]
        /\ UNCHANGED <<fe, api, ins, report, sched, mdl, ens, ensOut, rows, nextId, now, ret, calls, lastUpd, updates>>

\* the success result of generate_forecast
SuccessResult(s) ==
    Result("generate_forecast", "returned", TRUE, "none", s.created,
           s.model_name, s.steps)

\* what _store_forecasts hands to a direct caller: the count, or the exception
\* of db.commit()
StoreReturn(s, ok) ==
    IF ok THEN Result("_store_forecasts", "returned", TRUE, "none", s.created,
                      s.model_name, Len(s.forecasts))
    ELSE Result("_store_forecasts", "raised", FALSE, "exception", 0, "none", 0)

\* db.commit() at the end of _store_forecasts, and the return to the caller
Commit(w) ==
    LET s == wk[w]
        flushed == Flush(rows, nextId, s, 1, now)
    IN  /\ s.pc = "store"
        /\ s.i > Len(s.forecasts)
        /\ \E ok \in BOOLEAN :
             /\ rows' = IF ok THEN flushed.rows ELSE rows
             /\ nextId' = IF ok THEN flushed.nextId ELSE nextId
             /\ wk' = [wk EXCEPT ![w].pc = "done", ![w].pending = <<>>,
                                 ![w].stage = IF ok THEN "stored" ELSE "commit_failed",
                                 ![w].cause = IF ok THEN "none" ELSE "database"]
             /\ ret' = [ret EXCEPT ![w] =
                         IF s.op = "_store_forecasts" THEN StoreReturn(s, ok)
                         ELSE IF ok THEN SuccessResult(s)
                         ELSE ExceptHandler("exception")]
        /\ UNCHANGED <<fe, api, ins, report, sched, mdl, ens, ensOut, now, calls, lastUpd, updates>>

\* everything but the workers, before any run
Fresh ==
    /\ NoCalls
    /\ ins = NoInsights
    /\ report = NoReport
    /\ mdl = NoModel
    /\ sched = NoSchedule
    /\ ens = EnsembleNew(Half, Half, TRUE)
    /\ ensOut = EnsOut("init", "ok", "none", "Ensemble", <<>>, "none", "none")
    /\ rows = {}
    /\ nextId = 1
    /\ now = 0
    /\ ret = [w \in Workers |-> NoResult]
    /\ calls = 0
    /\ lastUpd = NoUpdate
    /\ updates = 0

\* one worker runs one enqueued task
Init ==
    /\ Fresh
    /\ \E a \in CallArgs, model_name \in ModelNames, steps \in 1..MaxHorizon :
         wk = [w \in Workers |-> IF w = "w1" THEN Task(a, model_name, steps)
                                 ELSE Session("off")]

Next == \E w \in Workers : GenerateForecast(w) \/ StorePoint(w) \/ Commit(w)

Spec == Init /\ [][Next]_vars

\* two workers run two tasks for the same product at the same time
InitConcurrent ==
    /\ Fresh
    /\ \E m \in [Workers -> {"SARIMA", "Prophet"}], h \in [Workers -> 1..MaxHorizon] :
         wk = [w \in Workers |-> Task([product_id |-> "P1", sku |-> "S1"], m[w], h[w])]

SpecConcurrent == InitConcurrent /\ [][Next]_vars

(***************************************************************************)
(* Direct _store_forecasts calls and update_forecast_actuals               *)
(***************************************************************************)
\* _store_forecasts calls made in one behaviour
MaxCalls == 2

\* lengths of the lists of points handed to _store_forecasts
PointCounts == {1, 2}

\* update_forecast_actuals calls made in one behaviour
MaxUpdates == 2

\* the entities the calls write for: one known by product id, one by SKU only
StoreArgs == {[product_id |-> "P1", sku |-> "S1"], [product_id |-> None, sku |-> "S2"]}

\* model identity, (lower, predicted, upper) and confidence score of a call
StoreVariants ==
    {[model_name |-> "SARIMA", model_version |-> "1.0", t |-> <<1, 2, 3>>, score |-> 95],
     [model_name |-> "Prophet", model_version |-> "2.0", t |-> <<2, 3, 5>>, score |-> 90]}

\* first forecast date of a call
StoreDates == {293}

\* dates update_forecast_actuals is called with
UpdateDates == {293}

\* the forecasts argument: n points on consecutive days from d0
PointsFrom(d0, n, t, score) ==
    [i \in 1..n |-> Point(d0 + i - 1, Rat(t[1]), Rat(t[2]), Rat(t[3]), score)]

\* a caller invokes _store_forecasts(forecasts, product_id, sku, model_name,
\* model_version, training_result, db) on its session
StoreForecasts(w) ==
    /\ wk[w].pc \in {"idle", "done"}
    /\ wk[w].op \in {"none", "_store_forecasts"}
    /\ calls < MaxCalls
    /\ \E a \in StoreArgs, v \in StoreVariants, n \in PointCounts, d0 \in StoreDates :
         wk' = [wk EXCEPT ![w] =
                 Call("_store_forecasts", a, v.model_name, v.model_version, n, "store",
                      "none", PointsFrom(d0, n, v.t, v.score))]
    /\ ret' = [ret EXCEPT ![w] = NoResult]
    /\ calls' = calls + 1
    /\ now' = now + 1
    /\ UNCHANGED <<fe, api, ins, report, sched, mdl, ens, ensOut, rows, nextId, lastUpd, updates>>

\* the query without its actual_quantity IS NULL filter
PendingActuals_NoFilter(rs, date) ==
    {r \in rs : r.forecast_date = date}

\* the forecasts update_forecast_actuals looks at: on the date, without actual
PendingActuals(rs, date) ==
    {r \in rs : r.forecast_date = date /\ ~r.has_actual}

\* the sales rows the lookup for one forecast matches
ActualSales(r) ==
    {s \in SalesRows : s.product_id = r.product_id /\ s.sale_date = r.forecast_date}

\* .first() of an unordered query: the row the database returns first
First(S, towards) ==
    CHOOSE s \in S : \A u \in S : IF towards = "lo" THEN s.id <= u.id ELSE s.id >= u.id

\* Forecast.calculate_error(): error = actual - predicted
CalculateError(r) ==
    [r EXCEPT !.has_error = TRUE,
              !.error = RatAdd(Rat(r.actual_quantity),
                               [n |-> -r.predicted_quantity.n, d |-> r.predicted_quantity.d])]

\* the loop body for one forecast with a matching sales row
RecordActual(r, actual) ==
    CalculateError([r EXCEPT !.has_actual = TRUE, !.actual_quantity = actual.quantity_sold])

\* update_forecast_actuals(forecast_date, db).  raises: an exception inside the
\* try, answered by rollback and a failure result
UpdateForecastActuals ==
    /\ updates < MaxUpdates
    /\ \E date \in UpdateDates, towards \in {"lo", "hi"}, raises \in BOOLEAN :
         LET forecasts == PendingActuals(rows, date)
             found == {r \in forecasts : ActualSales(r) # {}}
         IN  IF raises
             THEN /\ rows' = rows
                  /\ lastUpd' = [NoUpdate EXCEPT !.date = date]
             ELSE /\ rows' = {IF r \in found
                              THEN RecordActual(r, First(ActualSales(r), towards))
                              ELSE r : r \in rows}
                  /\ lastUpd' = [success |-> TRUE, date |-> date,
                                 forecasts_checked |-> Cardinality(forecasts),
                                 forecasts_updated |-> Cardinality(found),
                                 checked |-> {r.id : r \in forecasts},
                                 touched |-> {r.id : r \in found}]
    /\ updates' = updates + 1
    /\ UNCHANGED <<fe, api, ins, report, sched, mdl, ens, ensOut, nextId, now, wk, ret, calls>>

\* one caller makes its calls one after another on one session
InitStore ==
    /\ Fresh
    /\ wk = [w \in Workers |-> IF w = "w1" THEN Session("idle") ELSE Session("off")]

NextStore ==
    \/ \E w \in Workers : StoreForecasts(w) \/ StorePoint(w) \/ Commit(w)
    \/ (\A w \in Workers : wk[w].pc # "store") /\ UpdateForecastActuals

SpecStore == InitStore /\ [][NextStore]_vars

(***************************************************************************)
(* Claims about the forecast store                                         *)
(***************************************************************************)
\* two rows of the forecasts table with the same (entity, date, horizon) key
SameKey(r1, r2) ==
    /\ r1.product_id = r2.product_id
    /\ r1.sku = r2.sku
    /\ r1.forecast_date = r2.forecast_date
    /\ r1.forecast_horizon = r2.forecast_horizon

\* the committed rows that belong to the key a call writes point f under
KeyRows(rs, s, f) ==
    {r \in rs : /\ r.product_id = (IF s.product_id # None THEN s.product_id ELSE ZeroUuid)
                /\ r.sku = (IF s.sku # None THEN s.sku ELSE UnknownSku)
                /\ r.forecast_date = f.forecast_date
                /\ r.forecast_horizon = HorizonLabel(Len(s.forecasts))}

\* C1: after any sequence of store calls the table holds at most one row per
\* (entity key, forecast date, horizon label), for entities identified by
\* product id and for entities identified by SKU only
C1_OneRowPerKey ==
    \A r1 \in rows, r2 \in rows : SameKey(r1, r2) => r1.id = r2.id

\* C2: when two concurrent runs for the same product have both stored their
\* points, every key they wrote has exactly one row
C2_ConcurrentRunsOneRow ==
    (\A w \in Workers : wk[w].pc = "done" /\ wk[w].stage = "stored") =>
        \A w \in Workers : \A k \in 1..Len(wk[w].forecasts) :
            Cardinality(KeyRows(rows, wk[w], wk[w].forecasts[k])) <= 1

\* row r carries the values of point f written by call s at time at
Carries(r, f, s, at) ==
    /\ r.predicted_quantity = f.predicted_quantity
    /\ r.confidence_interval_lower = f.confidence_interval_lower
    /\ r.confidence_interval_upper = f.confidence_interval_upper
    /\ r.confidence_score = f.confidence_score
    /\ r.model_name = s.model_name
    /\ r.model_version = s.model_version
    /\ r.generated_at = at

\* a _store_forecasts call of worker w commits in this step
Commits(w) ==
    /\ wk[w].pc = "store"
    /\ wk'[w].pc = "done"
    /\ wk'[w].stage = "stored"

\* C3: when a committed _store_forecasts call wrote a point whose key already
\* had a row, that row afterwards carries the call's predicted quantity, bounds,
\* confidence score, model name, model version and generation timestamp
C3_SecondWriteOverwrites ==
    [][\A w \in Workers : Commits(w) =>
          \A k \in 1..Len(wk[w].pending) :
              \A r \in KeyRows(rows, wk[w], wk[w].pending[k].f) :
                  \E r2 \in rows' : /\ r2.id = r.id
                                    /\ Carries(r2, wk[w].pending[k].f, wk[w], now)]_vars

\* an update_forecast_actuals call happens in this step
Updates == updates' = updates + 1

\* C4: update_forecast_actuals never touches a forecast that already holds an
\* actual: its actual and its error stay as they are, so a second call for the
\* same date updates no forecast the first call updated
C4_ActualRecordedOnce ==
    [][Updates =>
          \A r \in rows : r.has_actual =>
              /\ r.id \notin lastUpd'.touched
              /\ \E r2 \in rows' : /\ r2.id = r.id
                                   /\ r2.has_actual
                                   /\ r2.actual_quantity = r.actual_quantity
                                   /\ r2.has_error = r.has_error
                                   /\ r2.error = r.error]_vars

\* a second call for a date found a forecast the first call had updated and
\* left it alone
C4_WitnessSecondCall ==
    /\ updates = MaxUpdates
    /\ lastUpd.success
    /\ lastUpd.touched = {}
    /\ \E r \in rows : r.forecast_date = lastUpd.date /\ r.has_actual

\* the entity of a forecast row has sales on the row's forecast date
EntityHasSales(r) ==
    \E s \in SalesRows :
        /\ s.sale_date = r.forecast_date
        /\ IF r.product_id # ZeroUuid THEN s.product_id = r.product_id
           ELSE s.sku = r.sku

\* C5: a successful update_forecast_actuals(date) records the actual and the
\* signed error on every forecast of that date that lacks an actual and whose
\* entity has sales on that date, and changes no other forecast
C5_ActualsRecordedForDate ==
    [][(Updates /\ lastUpd'.success) =>
          \A r \in rows : \E r2 \in rows' :
              /\ r2.id = r.id
              /\ IF /\ r.forecast_date = lastUpd'.date
                    /\ ~r.has_actual
                    /\ EntityHasSales(r)
                 THEN /\ r2.has_actual
                      /\ r2.has_error
                      /\ r2.error = RatAdd(Rat(r2.actual_quantity),
                                           [n |-> -r2.predicted_quantity.n,
                                            d |-> r2.predicted_quantity.d])
                 ELSE r2 = r]_vars

(***************************************************************************)
(* Claims about generate_forecast                                          *)
(***************************************************************************)
\* worker w has finished a generate_forecast run
Finished(w) == wk[w].op = "generate_forecast" /\ wk[w].pc = "done"

\* the frame the Feature Engineer prepared for the run of worker w
FrameOf(w) == PrepareTimeSeries(wk[w].product_id, wk[w].sku)

SupportedModels == {"SARIMA", "Prophet", "Ensemble"}

\* C6: no exception of generate_forecast reaches its caller: with no data, too
\* little data, an unsupported model or a failure in any stage it returns
\* success = false, an error message and forecasts_created = 0
C6_NoExceptionEscapes ==
    \A w \in Workers : Finished(w) =>
        /\ ret[w].outcome = "returned"
        /\ (\/ FrameOf(w).n < MIN_HISTORY_DAYS
            \/ wk[w].model_name \notin SupportedModels
            \/ wk[w].stage # "stored") =>
              /\ ~ret[w].success
              /\ ret[w].error # "none"
              /\ ret[w].forecasts_created = 0

\* a run in which a stage raised, and one whose commit raised
C6_WitnessStageRaised ==
    \E w \in Workers :
        /\ Finished(w)
        /\ wk[w].stage \in {"raise", "commit_failed"}
        /\ ret[w].outcome = "returned"
        /\ ret[w].error = "exception"

Consecutive(w) ==
    \A k \in 1..(Len(wk[w].forecasts) - 1) :
        wk[w].forecasts[k + 1].forecast_date = wk[w].forecasts[k].forecast_date + 1

\* C8: a run for an entity with at least the minimum history and a supported
\* model, in which no estimator and no database call fails, returns
\* success = true and forecasts_created = h for h points on consecutive dates
C8_EnoughHistorySucceeds ==
    \A w \in Workers :
        (/\ Finished(w)
         /\ FrameOf(w).n >= MIN_HISTORY_DAYS
         /\ wk[w].model_name \in SupportedModels
         /\ wk[w].cause \notin {"estimator", "database"}
         /\ wk[w].skipped = 0) =>
            /\ ret[w].success
            /\ ret[w].forecasts_created = wk[w].steps
            /\ Len(wk[w].forecasts) = wk[w].steps
            /\ Consecutive(w)

(***************************************************************************)
(* Claims about the ensemble                                               *)
(***************************************************************************)
OneThousandth == [n |-> 1, d |-> 1000]

WeightSum == RatAdd(ens.sarima_weight, ens.prophet_weight)

\* C9: the two ensemble weights sum to 1 within 1e-3, after construction with
\* any pair of constructor inputs and after every call to train
C9_WeightsSumToOne ==
    /\ RatLe(RatAdd(WeightSum, Rat(-1)), OneThousandth)
    /\ RatLe(RatAdd(Rat(1), [n |-> -WeightSum.n, d |-> WeightSum.d]), OneThousandth)

PointInOrder(f) ==
    /\ RatLe(Rat(0), f.confidence_interval_lower)
    /\ RatLe(f.confidence_interval_lower, f.predicted_quantity)
    /\ RatLe(f.predicted_quantity, f.confidence_interval_upper)

\* C10: every forecast point of a successful EnsembleModel.predict, combined or
\* passed through, has 0 <= lower <= predicted <= upper
C10_EnsemblePointsInOrder ==
    (ensOut.op = "predict" /\ ensOut.tag = "ok") =>
        \A i \in 1..Len(ensOut.forecasts) : PointInOrder(ensOut.forecasts[i])

(***************************************************************************)
(* Claims about the points generate_forecast persists                      *)
(***************************************************************************)
\* C11: every forecast row a generate_forecast run has persisted, whatever
\* the model, has predicted quantity >= 0, both bounds >= 0 and
\* lower <= predicted <= upper
C11_PersistedPointsInOrder ==
    \A r \in rows : PointInOrder(r)

(***************************************************************************)
(* Claims about the ensemble's degradation and its weights                 *)
(***************************************************************************)
\* the record EnsPredict leaves in ensOut for the result r of predict
PredictOut(r) ==
    EnsOut("predict", r.tag, "none", r.model_type, r.forecasts,
           r.sarima_tag, r.prophet_tag)

\* C12: predict on an ensemble whose train just returned success never raises;
\* when exactly one component yields no forecast (its predict fails, or raises
\* because the component failed training) the result is the other component's
\* result, and failure is reported only when both components yield none
C12_OneComponentFallback ==
    [][\A steps \in 1..MaxSteps, env \in PredictEnvs :
          LET s == SarimaPredict(ens.sarima_model, steps, ConfidenceLevel,
                                 env.sarima_ok, env.sarima_t)
              p == ProphetPredict(ens.prophet_model, steps, ConfidenceLevel,
                                  env.prophet_ok, env.prophet_t)
              r == EnsemblePredict(ens, steps, ConfidenceLevel, env)
          IN  (/\ ensOut.op = "train"
               /\ ensOut.tag = "ok"
               /\ ensOut' = PredictOut(r)) =>
                  /\ r.tag # "raise"
                  /\ (s.tag # "ok" /\ p.tag = "ok") =>
                        (r.tag = "ok" /\ r.model_type = "Prophet"
                                      /\ r.forecasts = p.forecasts)
                  /\ (s.tag = "ok" /\ p.tag # "ok") =>
                        (r.tag = "ok" /\ r.model_type = "SARIMA"
                                      /\ r.forecasts = s.forecasts)
                  /\ (r.tag = "fail") => (s.tag # "ok" /\ p.tag # "ok")]_vars

\* the record EnsTrain leaves in ensOut for the result r of train
TrainOut(r) ==
    EnsOut("train", r.tag, r.how, "Ensemble", <<>>, r.sarima_tag, r.prophet_tag)

\* weight_i = (1 / (MAPE_i + epsilon)) / sum_j (1 / (MAPE_j + epsilon))
InverseMape(sarima_mape, prophet_mape) ==
    LET si == RatDiv(Rat(1), Rat(sarima_mape + Epsilon))
        pi == RatDiv(Rat(1), Rat(prophet_mape + Epsilon))
    IN  [sarima |-> RatDiv(si, RatAdd(si, pi)), prophet |-> RatDiv(pi, RatAdd(si, pi))]

\* the validation MAPE of each component's forecast in a train call
SarimaValidationMape(env) == IF env.val_nonzero THEN env.sarima_mape ELSE 0
ProphetValidationMape(env) == IF env.val_nonzero THEN env.prophet_eval.mape ELSE 0

\* a train call with automatic weighting on data long enough to hold out a
\* validation part
AutoWeighted(n) == ens.auto_weight /\ n > 30

\* C13: when exactly one component fails training in a train call with
\* automatic weighting, train still returns success and the weights are the
\* inverse-MAPE weights of 100 for the failed component and the validation
\* MAPE of the other
C13_FailedComponentWorstMape ==
    [][\A n \in DataLens, env \in TrainEnvs :
          LET r == EnsembleTrain(ens, 1, n, env)
              sarima_failed == env.sarima_train # "ok"
              prophet_failed == env.prophet_train # "ok"
              expected ==
                  IF sarima_failed
                  THEN InverseMape(MapeWorst, ProphetValidationMape(env))
                  ELSE InverseMape(SarimaValidationMape(env), MapeWorst)
          IN  (/\ AutoWeighted(n)
               /\ sarima_failed # prophet_failed
               /\ sarima_failed => env.prophet_eval.ok
               /\ prophet_failed => env.sarima_eval_ok
               /\ ens' = r.self
               /\ ensOut' = TrainOut(r)) =>
                  /\ r.tag = "ok"
                  /\ r.self.sarima_weight = expected.sarima
                  /\ r.self.prophet_weight = expected.prophet]_vars

\* C14: after a train call with automatic weighting in which both components
\* trained and were evaluated, the weights are the inverse-MAPE weights of the
\* two validation MAPEs, and the component with the strictly lower MAPE holds
\* the strictly larger weight
C14_InverseMapeWeights ==
    [][\A n \in DataLens, env \in TrainEnvs :
          LET r == EnsembleTrain(ens, 1, n, env)
              sm == SarimaValidationMape(env)
              pm == ProphetValidationMape(env)
          IN  (/\ AutoWeighted(n)
               /\ env.sarima_train = "ok" /\ env.prophet_train = "ok"
               /\ env.sarima_eval_ok /\ env.prophet_eval.ok
               /\ ens' = r.self
               /\ ensOut' = TrainOut(r)) =>
                  /\ r.self.sarima_weight = InverseMape(sm, pm).sarima
                  /\ r.self.prophet_weight = InverseMape(sm, pm).prophet
                  /\ sm < pm => RatLt(r.self.prophet_weight, r.self.sarima_weight)
                  /\ pm < sm => RatLt(r.self.sarima_weight, r.self.prophet_weight)]_vars

(***************************************************************************)
(* One model instance used on its own: construct, then train, predict and  *)
(* evaluate in any order                                                   *)
(***************************************************************************)
ModelKinds == {"SARIMA", "Prophet", "Ensemble"}

\* the instance after its constructor, before any call
ModelNew(kind) ==
    [kind |-> kind, trained |-> FALSE, tag |-> "ok", op |-> "init", n |-> 0,
     obj |-> CASE kind = "SARIMA"  -> SarimaNew
               [] kind = "Prophet" -> ProphetNew
               [] OTHER            -> EnsembleNew(Half, Half, TRUE)]

\* what the estimators do during one evaluate call on test data
EvaluateEnvs ==
    [nonzero : BOOLEAN, sarima_eval_ok : BOOLEAN, prophet_eval : ProphetEvals,
     predict : PredictEnvs]

ModelsInit ==
    /\ \E kind \in ModelKinds : mdl = ModelNew(kind)
    /\ sched = NoSchedule
    /\ ens = EnsembleNew(Half, Half, TRUE)
    /\ ensOut = EnsOut("init", "ok", "none", "Ensemble", <<>>, "none", "none")
    /\ StoreIdle

\* train(data) on data of n rows
ModelTrain ==
    \E n \in DataLens, env \in TrainEnvs :
        LET r == CASE mdl.kind = "SARIMA"  -> SarimaTrain(1, n, env.sarima_train)
                   [] mdl.kind = "Prophet" -> ProphetTrain(1, n, env.prophet_train)
                   [] OTHER -> [tag |-> EnsembleTrain(mdl.obj, 1, n, env).tag,
                                obj |-> EnsembleTrain(mdl.obj, 1, n, env).self]
        IN  /\ mdl' = [mdl EXCEPT !.trained = TRUE, !.op = "train", !.tag = r.tag,
                                  !.n = 0, !.obj = r.obj]
            /\ UNCHANGED <<fe, api, ins, report, sched, ens, ensOut, storeVars>>

\* predict(steps)
ModelPredict ==
    \E steps \in 1..MaxSteps, env \in PredictEnvs :
        LET r == CASE mdl.kind = "SARIMA" ->
                        SarimaPredict(mdl.obj, steps, ConfidenceLevel,
                                      env.sarima_ok, env.sarima_t)
                   [] mdl.kind = "Prophet" ->
                        ProphetPredict(mdl.obj, steps, ConfidenceLevel,
                                       env.prophet_ok, env.prophet_t)
                   [] OTHER -> EnsemblePredict(mdl.obj, steps, ConfidenceLevel, env)
        IN  /\ mdl' = [mdl EXCEPT !.op = "predict", !.tag = r.tag,
                                  !.n = Len(r.forecasts)]
            /\ UNCHANGED <<fe, api, ins, report, sched, ens, ensOut, storeVars>>

\* evaluate(test_data) on test data of steps rows
ModelEvaluate ==
    \E steps \in 1..MaxSteps, env \in EvaluateEnvs :
        LET tag == CASE mdl.kind = "SARIMA" ->
                          SarimaEvaluate(mdl.obj, env.sarima_eval_ok, env.nonzero).tag
                     [] mdl.kind = "Prophet" ->
                          ProphetEvaluate(mdl.obj, env.prophet_eval.ok, env.nonzero,
                                          env.prophet_eval.mape).tag
                     [] OTHER ->
                          EnsembleEvaluate(mdl.obj, steps, env.nonzero,
                                           env.sarima_eval_ok, env.prophet_eval,
                                           env.predict)
        IN  /\ mdl' = [mdl EXCEPT !.op = "evaluate", !.tag = tag, !.n = 0]
            /\ UNCHANGED <<fe, api, ins, report, sched, ens, ensOut, storeVars>>

ModelsNext == ModelTrain \/ ModelPredict \/ ModelEvaluate

SpecModels == ModelsInit /\ [][ModelsNext]_vars

MaxRetries == 3

\* the 60 of retry_delay = 60 * (2 ** self.request.retries)
RetryBase == 60

\* clock ticks, of RetryBase seconds each, in one behaviour
MaxTicks == 8

ForecastTask == "generate_forecast_for_product"
ActualsTask == "update_all_forecast_actuals"
TaskNames == {ForecastTask, ActualsTask}

RECURSIVE Pow2(_)
Pow2(k) == IF k = 0 THEN 1 ELSE 2 * Pow2(k - 1)

\* retry_delay = 60 * (2 ** self.request.retries)
RetryDelay(retries) == RetryBase * Pow2(retries)

\* a task message the beat schedule or a caller has put on the queue at time t
Enqueued(t) ==
    [status |-> "queued", retries |-> 0, eta |-> t, attempts |-> 0,
     outcome |-> "none", success |-> FALSE, delay |-> 0]

\* outcomes of the body of a task: the call returns a success result, returns a
\* failure result, or raises
BodyOutcomes == {"ok", "failure_result", "raises"}

SchedulerInit ==
    /\ sched = [clock |-> 0, tasks |-> [name \in TaskNames |-> Enqueued(0)]]
    /\ mdl = NoModel
    /\ ens = EnsembleNew(Half, Half, TRUE)
    /\ ensOut = EnsOut("init", "ok", "none", "Ensemble", <<>>, "none", "none")
    /\ StoreIdle

\* a task whose time has come
Due(name) ==
    /\ sched.tasks[name].status \in {"queued", "retry"}
    /\ sched.tasks[name].eta <= sched.clock

\* generate_forecast_for_product: the result of generate_forecast is returned
\* whatever its success flag; an exception goes to self.retry with a countdown,
\* which re-raises the exception once max_retries is used up
RunForecastTask ==
    /\ Due(ForecastTask)
    /\ \E outcome \in BodyOutcomes :
         LET t == sched.tasks[ForecastTask]
             ran == [t EXCEPT !.attempts = t.attempts + 1, !.outcome = outcome]
         IN  sched' = [sched EXCEPT !.tasks[ForecastTask] =
                 IF outcome # "raises"
                 THEN [ran EXCEPT !.status = "succeeded", !.success = (outcome = "ok")]
                 ELSE IF t.retries < MaxRetries
                 THEN [ran EXCEPT !.status = "retry", !.retries = t.retries + 1,
                                  !.delay = RetryDelay(t.retries),
                                  !.eta = sched.clock + RetryDelay(t.retries)]
                 ELSE [ran EXCEPT !.status = "failed"]]
    /\ UNCHANGED <<fe, api, ins, report, mdl, ens, ensOut, storeVars>>

\* update_all_forecast_actuals: results.update(result) and return; an exception
\* is caught and turned into a result with success False, which is returned
RunActualsTask ==
    /\ Due(ActualsTask)
    /\ \E outcome \in BodyOutcomes :
         LET t == sched.tasks[ActualsTask]
         IN  sched' = [sched EXCEPT !.tasks[ActualsTask] =
                 [t EXCEPT !.attempts = t.attempts + 1, !.outcome = outcome,
                           !.status = "succeeded", !.success = (outcome = "ok")]]
    /\ UNCHANGED <<fe, api, ins, report, mdl, ens, ensOut, storeVars>>

\* time passes
Tick ==
    /\ sched.clock < MaxTicks * RetryBase
    /\ sched' = [sched EXCEPT !.clock = sched.clock + RetryBase]
    /\ UNCHANGED <<fe, api, ins, report, mdl, ens, ensOut, storeVars>>

SchedulerNext == RunForecastTask \/ RunActualsTask \/ Tick

SpecScheduler == SchedulerInit /\ [][SchedulerNext]_vars

\* a run of task name ends in this step without a success result
FailedRun(name) ==
    /\ sched'.tasks[name].attempts = sched.tasks[name].attempts + 1
    /\ sched'.tasks[name].outcome # "ok"

\* C16: a failed run of update_all_forecast_actuals is retried by the
\* scheduler: after it the task waits for a further attempt, with a delay that
\* doubles from one attempt to the next
C16_ActualsTaskRetried ==
    [][FailedRun(ActualsTask) =>
          /\ sched'.tasks[ActualsTask].status = "retry"
          /\ sched'.tasks[ActualsTask].delay
                 = RetryDelay(sched.tasks[ActualsTask].retries)]_vars

(***************************************************************************)
(* Claims about _store_forecasts and its horizon label                     *)
(***************************************************************************)
\* the _store_forecasts call of worker w ends in this step
StoreEnds(w) ==
    /\ wk[w].op = "_store_forecasts"
    /\ wk[w].pc = "store"
    /\ wk'[w].pc = "done"

\* some point of the call ending in this step failed to be stored: its loop
\* iteration raised, or a write was refused when the session flushed it
PointFailed(w) == wk[w].skipped > 0 \/ wk'[w].stage = "commit_failed"

\* table rs holds a row with the values the call of session s wrote for point f
HoldsPoint(rs, s, f) ==
    \E r \in rs : /\ r.forecast_date = f.forecast_date
                  /\ r.sku = (IF s.sku # None THEN s.sku ELSE UnknownSku)
                  /\ r.predicted_quantity = f.predicted_quantity
                  /\ r.model_name = s.model_name
                  /\ r.model_version = s.model_version

\* C17: when storing a point fails during _store_forecasts, the call still
\* returns, every point whose iteration did not raise is in the table
\* afterwards, and the returned count is the number of those points
C17_FailedPointSkippedAlone ==
    [][\A w \in Workers : (StoreEnds(w) /\ PointFailed(w)) =>
          /\ ret'[w].outcome = "returned"
          /\ ret'[w].forecasts_created = Len(wk[w].pending)
          /\ \A k \in 1..Len(wk[w].pending) :
                 HoldsPoint(rows', wk[w], wk[w].pending[k].f)]_vars

\* numbers of points of one run, on both sides of each threshold of the label
RunLengths == {1, 7, 8, 14, 15, 30, 31, 45}

\* one _store_forecasts call with a run of any of these lengths
StoreRun(w) ==
    /\ wk[w].pc = "idle"
    /\ calls = 0
    /\ \E a \in StoreArgs, v \in StoreVariants, n \in RunLengths, d0 \in StoreDates :
         wk' = [wk EXCEPT ![w] =
                 Call("_store_forecasts", a, v.model_name, v.model_version, n, "store",
                      "none", PointsFrom(d0, n, v.t, v.score))]
    /\ ret' = [ret EXCEPT ![w] = NoResult]
    /\ calls' = calls + 1
    /\ now' = now + 1
    /\ UNCHANGED <<fe, api, ins, report, sched, mdl, ens, ensOut, rows, nextId, lastUpd, updates>>

NextHorizon == \E w \in Workers : StoreRun(w) \/ StorePoint(w) \/ Commit(w)

SpecHorizon == InitStore /\ [][NextHorizon]_vars

\* the label the rule gives a run of n points
LabelOf(n) ==
    CASE n <= 7             -> "7-day"
      [] n > 7 /\ n <= 14   -> "14-day"
      [] n > 14 /\ n <= 30  -> "30-day"
      [] OTHER              -> ToString(n) \o "-day"

\* C18: every forecast a run of n points stored carries the horizon label
\* "7-day" if n <= 7, "14-day" if 7 < n <= 14, "30-day" if 14 < n <= 30 and
\* "{n}-day" otherwise
C18_HorizonLabelByLength ==
    \A w \in Workers : wk[w].op = "_store_forecasts" =>
        \A r \in rows : r.forecast_horizon = LabelOf(Len(wk[w].forecasts))

\* a run of exactly 7 points and a run of more than 30 points were stored
C18_WitnessThresholds ==
    \E w \in Workers :
        /\ wk[w].stage = "stored"
        /\ Len(wk[w].forecasts) \in {7, 31}
        /\ Cardinality(rows) >= 6

(***************************************************************************)
(* get_accuracy_report                                                     *)
(***************************************************************************)
\* get_accuracy_report calls made in one behaviour
MaxReports == 1

\* (start_date, end_date) a report is asked for
ReportRanges == {<<293, 293>>, <<293, 294>>, <<294, 300>>}

RatNeg(x) == [n |-> -x.n, d |-> x.d]
RatAbs(x) == [n |-> Abs(x.n), d |-> x.d]

\* round(x, 2): to hundredths, a tie going to the even hundredth
Round2(x) ==
    LET q == (x.n * 100) \div x.d
        rem == (x.n * 100) % x.d
        up == \/ 2 * rem > x.d
              \/ (2 * rem = x.d /\ q % 2 = 1)
    IN  Norm(IF up THEN q + 1 ELSE q, 100)

\* the forecasts query: dated within [start_date, end_date], with an actual
ReportForecasts(rs, start_date, end_date) ==
    {r \in rs : /\ r.forecast_date >= start_date
                /\ r.forecast_date <= end_date
                /\ r.has_actual}

\* error = float(forecast.error) if forecast.error else 0
ErrorOf(r) == IF r.has_error THEN r.error ELSE Rat(0)

\* Forecast.get_mape(): |actual - predicted| / actual * 100, None without a
\* non-zero actual
HasMape(r) == r.has_actual /\ r.actual_quantity # 0
GetMape(r) ==
    RatMul(Rat(100),
           RatDiv(RatAbs(RatAdd(Rat(r.actual_quantity), RatNeg(r.predicted_quantity))),
                  Rat(r.actual_quantity)))

\* sum(metrics['errors']), sum of the squares, sum(metrics['mapes'])
RECURSIVE SumErrors(_)
SumErrors(S) ==
    IF S = {} THEN Rat(0)
    ELSE LET r == CHOOSE x \in S : TRUE
         IN  RatAdd(ErrorOf(r), SumErrors(S \ {r}))

RECURSIVE SumSquares(_)
SumSquares(S) ==
    IF S = {} THEN Rat(0)
    ELSE LET r == CHOOSE x \in S : TRUE
         IN  RatAdd(RatMul(ErrorOf(r), ErrorOf(r)), SumSquares(S \ {r}))

RECURSIVE SumMapes(_)
SumMapes(S) ==
    IF S = {} THEN Rat(0)
    ELSE LET r == CHOOSE x \in S : TRUE
         IN  RatAdd(GetMape(r), SumMapes(S \ {r}))

\* one entry of 'models': mae = sum(errors) / len(errors), the mean of the
\* squared errors whose root is rmse, and the mean of the mapes
ModelMetrics(model_name, S) ==
    LET mapes == {r \in S : HasMape(r)}
    IN  [model_name |-> model_name,
         mae |-> Round2(RatDiv(SumErrors(S), Rat(Cardinality(S)))),
         rmse_squared |-> RatDiv(SumSquares(S), Rat(Cardinality(S))),
         mape |-> IF mapes = {} THEN Rat(0)
                  ELSE Round2(RatDiv(SumMapes(mapes), Rat(Cardinality(mapes)))),
         samples_evaluated |-> Cardinality(S)]

\* get_accuracy_report(start_date, end_date, db)
AccuracyReport(rs, start_date, end_date) ==
    LET forecasts == ReportForecasts(rs, start_date, end_date)
        names == {r.model_name : r \in forecasts}
    IN  IF forecasts = {}
        THEN [op |-> "get_accuracy_report", success |-> FALSE,
              start_date |-> start_date, end_date |-> end_date,
              models |-> {}, total_forecasts |-> 0]
        ELSE [op |-> "get_accuracy_report", success |-> TRUE,
              start_date |-> start_date, end_date |-> end_date,
              models |-> {ModelMetrics(name, {r \in forecasts : r.model_name = name}) :
                              name \in names},
              total_forecasts |-> Cardinality(forecasts)]

\* a caller asks for a report between two calls on the store
GetAccuracyReport ==
    /\ report.count < MaxReports
    /\ \A w \in Workers : wk[w].pc # "store"
    /\ \E range \in ReportRanges :
         report' = AccuracyReport(rows, range[1], range[2])
                       @@ [count |-> report.count + 1]
    /\ UNCHANGED <<fe, api, ins, sched, mdl, ens, ensOut, storeVars>>

NextAccuracy == NextStore \/ GetAccuracyReport

SpecAccuracy == InitStore /\ [][NextAccuracy]_vars

\* a get_accuracy_report call happens in this step
Reports == report'.count = report.count + 1

\* the forecasts a report for [start_date, end_date] is about
InRange(start_date, end_date) ==
    {r \in rows : r.has_actual /\ r.forecast_date \in start_date..end_date}

\* sum of |error| over a set of forecasts
RECURSIVE SumAbsErrors(_)
SumAbsErrors(S) ==
    IF S = {} THEN Rat(0)
    ELSE LET r == CHOOSE x \in S : TRUE
         IN  RatAdd(RatAbs(r.error), SumAbsErrors(S \ {r}))

\* C19: get_accuracy_report(start, end) fails when no forecast dated within
\* [start, end] holds an actual; otherwise it reports, for each model name of
\* exactly those forecasts, their number, the mean of their absolute errors as
\* MAE (never negative), the mean squared error under RMSE and the mean MAPE
C19_AccuracyPerModel ==
    [][Reports =>
          LET S == InRange(report'.start_date, report'.end_date)
          IN  IF S = {} THEN ~report'.success
              ELSE /\ report'.success
                   /\ {m.model_name : m \in report'.models} = {r.model_name : r \in S}
                   /\ \A m \in report'.models :
                        LET Sm == {r \in S : r.model_name = m.model_name}
                        IN  /\ m.samples_evaluated = Cardinality(Sm)
                            /\ RatLe(Rat(0), m.mae)
                            /\ m.mae = Round2(RatDiv(SumAbsErrors(Sm),
                                                     Rat(Cardinality(Sm))))
                            /\ m.rmse_squared = RatDiv(SumSquares(Sm),
                                                       Rat(Cardinality(Sm)))
                            /\ RatLe(Rat(0), m.mape)]_vars

(***************************************************************************)
(* The Insights Generator (app/forecasting/insights_generator.py).  A run  *)
(* reads the predicted quantities of the forecasts dated from today to     *)
(* today + forecast_horizon_days, in date order, and the quantities of the *)
(* sales rows of the last 90 days.  Dates are day offsets from the run     *)
(* date, date.today() = 0; the forecast dates of a window are consecutive. *)
(* The detectors are also called on their own, on the frames of a caller.  *)
(***************************************************************************)
\* most forecast points of a short window
MaxInsightPoints == 2

\* most forecast points of a long window
MaxWindow == 7

\* the quantity_sold column of the history a run may find
Histories == {<<>>, <<5>>, <<4, 6>>, <<0, 0>>}

\* predicted quantities a forecast point may hold
ForecastValues == {0, 7, 8, 9, 10, 15, 25}

\* predicted quantities of the points of a long window
LongValues == {7, 25}

\* sequences over S of length at most n
SeqsUpTo(S, n) == UNION {[1..k -> S] : k \in 0..n}

\* the predicted_quantity column a run may read: short windows over all the
\* values, and windows long enough for the stockout detector (5 days) and
\* the seasonal detector (7 points)
Windows ==
    SeqsUpTo(ForecastValues, MaxInsightPoints)
        \cup UNION {[1..k -> LongValues] : k \in 5..MaxWindow}

\* <<forecast_horizon_days, offset of the first forecast date>>
WindowStarts == {<<30, 0>>, <<120, 0>>, <<120, 95>>}

RECURSIVE SeqSum(_)
SeqSum(q) == IF q = <<>> THEN 0 ELSE Head(q) + SeqSum(Tail(q))

\* Series.mean() of a non-empty column
Mean(q) == Norm(SeqSum(q), Len(q))

RECURSIVE SumSqDev(_, _)
SumSqDev(q, m) ==
    IF q = <<>> THEN Rat(0)
    ELSE LET d == RatAdd(Rat(Head(q)), RatNeg(m))
         IN  RatAdd(RatMul(d, d), SumSqDev(Tail(q), m))

\* the square of Series.std(), the sample standard deviation, of a column of
\* at least two values (std() of a single value is NaN)
Variance(q) == RatDiv(SumSqDev(q, Mean(q)), Rat(Len(q) - 1))

\* p > historical_avg + k * historical_std for k * k = ksq; every comparison
\* with NaN is False
Exceeds(p, history, ksq) ==
    /\ Len(history) >= 2
    /\ RatLt(Mean(history), Rat(p))
    /\ LET d == RatAdd(Rat(p), RatNeg(Mean(history)))
       IN  RatLt(RatMul(ksq, Variance(history)), RatMul(d, d))

SeqMax(q) == SetMax({q[i] : i \in 1..Len(q)})

\* an insight dict; valid_from is date.today()
Insight(insight_type, severity, valid_until) ==
    [insight_type |-> insight_type, severity |-> severity,
     valid_from |-> 0, valid_until |-> valid_until]

\* what a detector hands back: its insights, or an exception
Detected(insights) == [tag |-> "ok", insights |-> insights]
DetectorRaised == [tag |-> "raise", insights |-> {}]

\* _detect_demand_spikes.  With historical_avg = 0 the percentage in the
\* description is infinite and int() of it raises OverflowError.  The
\* insight is valid until spike_date, the date of the first largest spike
DetectDemandSpikes(forecast, history, first) ==
    LET spikes == {i \in 1..Len(forecast) : Exceeds(forecast[i], history, Rat(4))}
        max_spike == SetMax({forecast[i] : i \in spikes})
        idxmax == SetMin({i \in spikes : forecast[i] = max_spike})
        severity ==
            IF Exceeds(max_spike, history, Rat(9)) THEN "critical"
            ELSE IF Exceeds(max_spike, history, [n |-> 25, d |-> 4]) THEN "high"
            ELSE "medium"
    IN  IF forecast = <<>> \/ history = <<>> THEN Detected({})
        ELSE IF spikes = {} THEN Detected({})
        ELSE IF Mean(history).n = 0 THEN DetectorRaised
        ELSE Detected({Insight("demand_spike", severity, first + idxmax - 1)})

\* _detect_demand_drops: points below half the historical average; valid
\* until drop_date, the date of the first lowest drop
DetectDemandDrops(forecast, history, first) ==
    LET half_avg == RatMul(Mean(history), Half)
        drops == {i \in 1..Len(forecast) : RatLt(Rat(forecast[i]), half_avg)}
        min_demand == SetMin({forecast[i] : i \in drops})
        idxmin == SetMin({i \in drops : forecast[i] = min_demand})
        severity ==
            IF RatLt(Rat(min_demand), RatMul(Mean(history), [n |-> 3, d |-> 10]))
            THEN "medium" ELSE "low"
    IN  IF forecast = <<>> \/ history = <<>> THEN Detected({})
        ELSE IF drops = {} THEN Detected({})
        ELSE IF Mean(history).n = 0 THEN DetectorRaised
        ELSE Detected({Insight("demand_drop", severity, first + idxmin - 1)})

\* forecast_df['predicted_quantity'].quantile(0.8) of a non-empty column:
\* linear interpolation between the order statistics around position
\* (n - 1) * 0.8; kth(k) is the k-th smallest predicted quantity
Quantile80(forecast) ==
    LET n == Len(forecast)
        kth(k) == CHOOSE v \in {forecast[i] : i \in 1..n} :
                      /\ Cardinality({i \in 1..n : forecast[i] < v}) < k
                      /\ k <= Cardinality({i \in 1..n : forecast[i] <= v})
        lo == ((n - 1) * 4) \div 5
        fr == ((n - 1) * 4) % 5
    IN  IF fr = 0 THEN Rat(kth(lo + 1))
        ELSE RatAdd(Rat(kth(lo + 1)),
                    RatMul(Norm(fr, 5), Rat(kth(lo + 2) - kth(lo + 1))))

\* the stockout rule with the day count compared by > instead of >=
DetectStockoutRisks_Strict(forecast) ==
    LET high_demand_days ==
            {i \in 1..Len(forecast) : RatLe(Quantile80(forecast), Rat(forecast[i]))}
    IN  IF forecast = <<>> THEN Detected({})
        ELSE IF Cardinality(high_demand_days) > 5
             THEN Detected({Insight("stockout_risk", "high", 30)})
        ELSE Detected({})

\* _detect_stockout_risks: at least 5 days at or above the window's own
\* 80th percentile
DetectStockoutRisks(forecast) ==
    LET high_demand_days ==
            {i \in 1..Len(forecast) : RatLe(Quantile80(forecast), Rat(forecast[i]))}
    IN  IF forecast = <<>> THEN Detected({})
        ELSE IF Cardinality(high_demand_days) >= 5
             THEN Detected({Insight("stockout_risk", "high", 30)})
        ELSE Detected({})

\* _detect_seasonal_trends: the mean predicted quantity of each day of the
\* week, and the spread of these means relative to their mean.  The dates
\* are consecutive, so the groups are the same for every weekday of the run
\* date.  A zero mean gives NaN, and NaN > 0.3 is False
DetectSeasonalTrends(forecast, first) ==
    LET n == Len(forecast)
        day_of_week(i) == (first + i - 1) % 7
        days == {day_of_week(i) : i \in 1..n}
        weekly(d) ==
            LET idx == {i \in 1..n : day_of_week(i) = d}
                nth(j) == CHOOSE i \in idx : Cardinality({k \in idx : k <= i}) = j
            IN  Mean([j \in 1..Cardinality(idx) |-> forecast[nth(j)]])
        weekly_pattern == {weekly(d) : d \in days}
        pmax == CHOOSE x \in weekly_pattern : \A y \in weekly_pattern : RatLe(y, x)
        pmin == CHOOSE x \in weekly_pattern : \A y \in weekly_pattern : RatLe(x, y)
        RECURSIVE total(_)
        total(D) == IF D = {} THEN Rat(0)
                    ELSE LET d == CHOOSE x \in D : TRUE
                         IN  RatAdd(weekly(d), total(D \ {d}))
        pmean == RatDiv(total(days), Rat(Cardinality(days)))
    IN  IF n < 7 THEN Detected({})
        ELSE IF pmean.n = 0 THEN Detected({})
        ELSE IF RatLt([n |-> 3, d |-> 10], RatDiv(RatAdd(pmax, RatNeg(pmin)), pmean))
             THEN Detected({Insight("seasonal_trend", "low", 90)})
        ELSE Detected({})

\* _generate_reorder_alerts: one alert for every non-empty forecast
GenerateReorderAlerts(forecast) ==
    IF forecast = <<>> THEN Detected({})
    ELSE Detected({Insight("reorder_alert", "medium", 7)})

\* _classify_movers: by the average predicted quantity
ClassifyMovers(forecast, history) ==
    IF forecast = <<>> \/ history = <<>> THEN Detected({})
    ELSE IF RatLt(Rat(20), Mean(forecast))
         THEN Detected({Insight("fast_mover", "medium", 90)})
    ELSE IF RatLt(Mean(forecast), Rat(5))
         THEN Detected({Insight("slow_mover", "low", 90)})
    ELSE Detected({})

\* the six detectors in the order generate_insights calls them
Detectors(forecast, history, first) ==
    <<DetectDemandSpikes(forecast, history, first),
      DetectDemandDrops(forecast, history, first),
      DetectStockoutRisks(forecast), DetectSeasonalTrends(forecast, first),
      GenerateReorderAlerts(forecast), ClassifyMovers(forecast, history)>>

\* generate_insights(product_id, category_id, forecast_horizon_days, db).
\* _get_historical_data reads r.revenue of each sales row it finds, and
\* SalesHistory has no such attribute (its column is total_revenue): a
\* non-empty history raises AttributeError.  db: "create_fails":
\* _create_insight returns None for each insight; "commit_fails":
\* db.commit() raises.  Any exception ends in rollback and a failure result
InsightsResult(forecast, history, first, db) ==
    LET out == Detectors(forecast, history, first)
        insights == UNION {out[k].insights : k \in 1..Len(out)}
        failure(error) ==
            [op |-> "generate_insights", success |-> FALSE, error |-> error,
             insights |-> {}, insights_created |-> 0]
    IN  IF forecast = <<>> THEN failure("No forecasts found")
        ELSE IF history # <<>> THEN failure("exception")
        ELSE IF \E k \in 1..Len(out) : out[k].tag = "raise" THEN failure("exception")
        ELSE IF db = "commit_fails" THEN failure("exception")
        ELSE [op |-> "generate_insights", success |-> TRUE, error |-> "none",
              insights |-> IF db = "create_fails" THEN {} ELSE insights,
              insights_created |->
                  IF db = "create_fails" THEN 0 ELSE Cardinality(insights)]

\* the forecasts of the window [today, today + horizon] and the sales rows
\* of the last 90 days, in the database or in the frames of a caller
InsightsInit ==
    /\ \E history \in Histories, forecast \in Windows, start \in WindowStarts :
         /\ start[2] + Len(forecast) - 1 <= start[1]
         /\ ins = [NoInsights EXCEPT !.history = history, !.forecast = forecast,
                                     !.horizon = start[1], !.first = start[2]]
    /\ NoCalls
    /\ report = NoReport
    /\ sched = NoSchedule
    /\ mdl = NoModel
    /\ ens = EnsembleNew(Half, Half, TRUE)
    /\ ensOut = EnsOut("init", "ok", "none", "Ensemble", <<>>, "none", "none")
    /\ rows = {}
    /\ nextId = 1
    /\ now = 0
    /\ wk = [w \in Workers |-> Session("off")]
    /\ ret = [w \in Workers |-> NoResult]
    /\ calls = 0
    /\ lastUpd = NoUpdate
    /\ updates = 0

\* one run of generate_insights
GenerateInsights ==
    /\ ins.op = "none"
    /\ \E db \in {"ok", "create_fails", "commit_fails"} :
         LET r == InsightsResult(ins.forecast, ins.history, ins.first, db)
         IN  ins' = [ins EXCEPT !.db = db, !.op = r.op, !.success = r.success,
                                !.error = r.error, !.insights = r.insights,
                                !.insights_created = r.insights_created]
    /\ UNCHANGED <<fe, api, report, sched, mdl, ens, ensOut, storeVars>>

\* the six detectors called one by one on a forecast frame and a history
\* frame, as the tests call them: each returns its insights or raises
DetectInsights ==
    /\ ins.op = "none"
    /\ LET out == Detectors(ins.forecast, ins.history, ins.first)
           raised == \E k \in 1..Len(out) : out[k].tag = "raise"
       IN  ins' = [ins EXCEPT !.op = "detect", !.success = ~raised,
                              !.error = IF raised THEN "exception" ELSE "none",
                              !.insights = UNION {out[k].insights : k \in 1..Len(out)}]
    /\ UNCHANGED <<fe, api, report, sched, mdl, ens, ensOut, storeVars>>

InsightsNext == GenerateInsights \/ DetectInsights

SpecInsights == InsightsInit /\ [][InsightsNext]_vars

\* the demand-spike insights a run emitted
DemandSpikes == {i \in ins.insights : i.insight_type = "demand_spike"}

\* C20: in one insight run over a history whose mean and standard deviation
\* are defined, with a database that takes every write, a demand-spike
\* insight is emitted if and only if some forecast point exceeds mean + 2
\* sigma of the history; at most one is emitted, and its severity is critical
\* if the largest forecast point exceeds mean + 3 sigma, high if it exceeds
\* mean + 2.5 sigma, and medium otherwise.
C20_DemandSpikeRule ==
    (ins.op = "generate_insights" /\ ins.db = "ok" /\ Len(ins.history) >= 2) =>
        /\ Cardinality(DemandSpikes) <= 1
        /\ (DemandSpikes # {}) <=>
               (\E i \in 1..Len(ins.forecast) : Exceeds(ins.forecast[i], ins.history, Rat(4)))
        /\ \A i \in DemandSpikes :
               i.severity =
                   IF Exceeds(SeqMax(ins.forecast), ins.history, Rat(9)) THEN "critical"
                   ELSE IF Exceeds(SeqMax(ins.forecast), ins.history, [n |-> 25, d |-> 4])
                        THEN "high"
                   ELSE "medium"

\* the insights of one type a run emitted
Emitted(insight_type) == {i \in ins.insights : i.insight_type = insight_type}

\* the detectors have returned: in a run that reached its end on a database
\* that takes every write, or called on their own
Detected6 ==
    \/ ins.op = "generate_insights" /\ ins.success /\ ins.db = "ok"
    \/ ins.op = "detect"

C22_ReorderAlertAlways ==
    (ins.op = "generate_insights" /\ ins.db = "ok" /\ ins.forecast # <<>>) =>
        /\ Cardinality(Emitted("reorder_alert")) = 1
        /\ \A i \in Emitted("reorder_alert") : i.severity = "medium"

\* C23: in each insight run that reaches its end over a non-empty forecast
\* window, and when called on its own, the mover detector emits a
\* fast-mover insight (severity medium) if and only if the mean forecast
\* demand exceeds 20 per day, a slow-mover insight (severity low) if and
\* only if it is below 5 per day, neither in between, and never both.
C23_MoverRule ==
    (Detected6 /\ ins.forecast # <<>>) =>
        /\ (Emitted("fast_mover") # {}) <=> RatLt(Rat(20), Mean(ins.forecast))
        /\ (Emitted("slow_mover") # {}) <=> RatLt(Mean(ins.forecast), Rat(5))
        /\ \A i \in Emitted("fast_mover") : i.severity = "medium"
        /\ \A i \in Emitted("slow_mover") : i.severity = "low"
        /\ Emitted("fast_mover") = {} \/ Emitted("slow_mover") = {}

\* C24: every insight emitted by any detector has a validity window that
\* starts on the run date and is at most 90 days long, for every forecast
\* horizon: valid_from <= valid_until <= valid_from + 90.
C24_ValidityWindow ==
    \A i \in ins.insights :
        /\ i.valid_from = 0
        /\ i.valid_from <= i.valid_until
        /\ i.valid_until <= i.valid_from + 90

(***************************************************************************)
(* The daily series of the Feature Engineer, row by row                    *)
(* (app/forecasting/feature_engineering.py).  The feature columns that     *)
(* prepare_time_series adds afterwards, and _handle_missing_values, fill   *)
(* columns and neither add nor drop rows.                                  *)
(***************************************************************************)
\* most sales rows one query returns, and the last calendar day
MaxSales == 3
MaxDay == 4

\* the merge of _aggregate_daily as an inner join: no row for a day without
\* a sale
AggregateDailyRows_NoFill(sales) ==
    LET dates == {s.sale_date : s \in sales}
        daily == {[sale_date |-> d,
                   quantity_sold |-> SumQuantity({s \in sales : s.sale_date = d})] :
                  d \in dates}
        date_range == SetMin(dates)..SetMax(dates)
    IN  UNION {{[sale_date |-> d, quantity_sold |-> r.quantity_sold] :
                    r \in {x \in daily : x.sale_date = d}} : d \in date_range}

\* _aggregate_daily, the rows of full_df: daily is one row per sale date
\* with the summed quantity; date_range runs from the first to the last
\* sale date; the left merge keeps every day of date_range, with the daily
\* rows of that day or, where there is none, NaN, which fillna turns into 0
AggregateDailyRows(sales) ==
    LET dates == {s.sale_date : s \in sales}
        daily == {[sale_date |-> d,
                   quantity_sold |-> SumQuantity({s \in sales : s.sale_date = d})] :
                  d \in dates}
        date_range == SetMin(dates)..SetMax(dates)
    IN  UNION {IF \E x \in daily : x.sale_date = d
               THEN {[sale_date |-> d, quantity_sold |-> r.quantity_sold] :
                         r \in {x \in daily : x.sale_date = d}}
               ELSE {[sale_date |-> d, quantity_sold |-> 0]} : d \in date_range}

\* the sales rows a query may match: any sale dates and quantities, several
\* rows on one day included
SeriesInit ==
    /\ \E q \in SeqsUpTo((1..MaxDay) \X {0, 1, 2}, MaxSales) :
         fe = [op |-> "none", empty |-> FALSE, rows |-> {},
               sales |-> {Sale(i, "P1", "S1", q[i][1], q[i][2]) : i \in 1..Len(q)}]
    /\ api = [daily |-> 0, monthly |-> 0, made |-> 0, made_month |-> 0,
              pc |-> [w \in Workers |-> "off"]]
    /\ ins = NoInsights
    /\ mdl = NoModel
    /\ sched = NoSchedule
    /\ ens = EnsembleNew(Half, Half, TRUE)
    /\ ensOut = EnsOut("init", "ok", "none", "Ensemble", <<>>, "none", "none")
    /\ report = NoReport
    /\ rows = {}
    /\ nextId = 1
    /\ now = 0
    /\ wk = [w \in Workers |-> Session("off")]
    /\ ret = [w \in Workers |-> NoResult]
    /\ calls = 0
    /\ lastUpd = NoUpdate
    /\ updates = 0

\* prepare_time_series: the empty frame when no row matches, else the
\* daily frame
PrepareSeries ==
    /\ fe.op = "none"
    /\ fe' = [fe EXCEPT !.op = "prepare_time_series",
                        !.empty = (fe.sales = {}),
                        !.rows = IF fe.sales = {} THEN {}
                                 ELSE AggregateDailyRows(fe.sales)]
    /\ UNCHANGED <<api, ins, report, sched, mdl, ens, ensOut, storeVars>>

SpecDaily == SeriesInit /\ [][PrepareSeries]_vars

TrainedWithoutDates(n) ==
    [mdl EXCEPT !.trained = TRUE, !.op = "train", !.n = 0,
                !.tag = ProphetTrain(1, n, "fail_prepare").tag,
                !.obj = ProphetTrain(1, n, "fail_prepare").obj]

\* C26: ProphetModel.train called on data that has neither the named date
\* column nor a date index raises the ValueError "Date column ... not found".
C26_MissingDateColumnRaises ==
    [][\A n \in DataLens :
           (mdl.kind = "Prophet" /\ mdl' = TrainedWithoutDates(n))
               => mdl'.tag = "raise"]_vars

(***************************************************************************)
(* The API call tracker (shared/utils/cost_protection.py) used by several  *)
(* workers, each following can_make_call() -> API call -> record_call().   *)
(* All steps fall within one day and one month, so no counter expires.     *)
(***************************************************************************)
\* the limits the tracker was built with
DailyLimit == 3
MonthlyLimit == 4

\* the tracker at the start of a day: no call today, some calls earlier in
\* the month; made and made_month count the API calls really made
TrackerInit ==
    /\ \E m \in 0..MonthlyLimit :
         api = [daily |-> 0, monthly |-> m, made |-> 0, made_month |-> m,
                pc |-> [w \in Workers |-> "idle"]]
    /\ fe = [op |-> "none", sales |-> {}, empty |-> FALSE, rows |-> {}]
    /\ ins = NoInsights
    /\ mdl = NoModel
    /\ sched = NoSchedule
    /\ ens = EnsembleNew(Half, Half, TRUE)
    /\ ensOut = EnsOut("init", "ok", "none", "Ensemble", <<>>, "none", "none")
    /\ report = NoReport
    /\ rows = {}
    /\ nextId = 1
    /\ now = 0
    /\ wk = [w \in Workers |-> Session("off")]
    /\ ret = [w \in Workers |-> NoResult]
    /\ calls = 0
    /\ lastUpd = NoUpdate
    /\ updates = 0

\* can_make_call(): reads the two counters; False once either has reached
\* its limit
CanMakeCall(w) ==
    /\ api.pc[w] = "idle"
    /\ api' = [api EXCEPT !.pc[w] =
                  IF api.daily >= DailyLimit \/ api.monthly >= MonthlyLimit
                  THEN "blocked" ELSE "allowed"]
    /\ UNCHANGED <<fe, ins, report, sched, mdl, ens, ensOut, storeVars>>

\* the API call of a worker whose check returned True
MakeApiCall(w) ==
    /\ api.pc[w] = "allowed"
    /\ api' = [api EXCEPT !.pc[w] = "called", !.made = @ + 1, !.made_month = @ + 1]
    /\ UNCHANGED <<fe, ins, report, sched, mdl, ens, ensOut, storeVars>>

\* record_call(): INCR of the daily and of the monthly counter
RecordCall(w) ==
    /\ api.pc[w] = "called"
    /\ api' = [api EXCEPT !.pc[w] = "idle", !.daily = @ + 1, !.monthly = @ + 1]
    /\ UNCHANGED <<fe, ins, report, sched, mdl, ens, ensOut, storeVars>>

TrackerNext ==
    \E w \in Workers : CanMakeCall(w) \/ MakeApiCall(w) \/ RecordCall(w)

SpecTracker == TrackerInit /\ [][TrackerNext]_vars

\* C27: with any number of workers each following can_make_call() -> API
\* call -> record_call(), the number of API calls made within a day never
\* exceeds daily_limit and the number made within a month never exceeds
\* monthly_limit.
C27_CallsWithinLimits ==
    /\ api.made <= DailyLimit
    /\ api.made_month <= MonthlyLimit

\* the sales history a stored forecast row was generated from: the rows of
\* its product, or of its SKU when it was stored without a product id
HistoryOf(r) ==
    IF r.product_id # ZeroUuid THEN LoadSalesData(r.product_id, None)
    ELSE LoadSalesData(None, r.sku)

\* C28: every forecast date persisted by a successful generate_forecast is
\* strictly later than the last observed sale date of the history it was
\* generated from, for each model choice.
C28_ForecastsAfterHistory ==
    \A r \in rows :
        r.forecast_date > SetMax({s.sale_date : s \in HistoryOf(r)})

\* C29: after any interleaving of forecast upserts and update_forecast_actuals
\* calls, every stored forecast that holds an actual quantity has
\* error = actual quantity - its current predicted quantity.
C29_ErrorMatchesCurrentPrediction ==
    \A r \in rows :
        r.has_actual =>
            /\ r.has_error
            /\ r.error = RatAdd(Rat(r.actual_quantity), RatNeg(r.predicted_quantity))

\* C30: the actual quantity update_forecast_actuals records on a forecast is
\* the entity's total quantity sold on that date, summed over all of its
\* sales-history rows for the date.
C30_ActualIsDailyTotal ==
    \A r \in rows :
        r.has_actual =>
            r.actual_quantity =
                SumQuantity({s \in HistoryOf(r) : s.sale_date = r.forecast_date})

====
